---- MODULE Spec2Model ----
(***************************************************************************)
(* Optimistic sync transaction engine of effect-db-collection.             *)
(*                                                                         *)
(* The model follows the CollectionService revision of the sources:        *)
(*   localEffectCollectionOptions  src/src/types/refs.ts:78-173            *)
(*   sendTransaction               src/src/utils/send-transaction.ts:29-91 *)
(*   rollbackTransaction           src/src/utils/rollback-transaction.ts   *)
(*   runInitialSync                src/src/local/collection.ts:260-283     *)
(*   CollectionService             src/src/utils/send-transaction.ts:102   *)
(*                                                                         *)
(* Runner Fiber is the fiber forked by sync(); the runners in Procs are the *)
(* promises of sendEffectTransaction.  A step of a runner is one           *)
(* suspension point (query, handler, or a sink call; an Effect.all over    *)
(* sink writes is one step that stops at its first failing write)          *)
(* together with the Ref code next to it.                                  *)
(***************************************************************************)
EXTENDS Integers, Sequences, FiniteSets, TLC

\* ---------------------------------------------------------------- bounds
MaxCalls == 3
MaxFails == 1

\* ---------------------------------------------------------------- data
Fiber == "fiber"
Procs == {"p1", "p2"}
Runners == {Fiber} \cup Procs

Item(k, val) == [id |-> k, v |-> val]
getKey(item) == item.id
NoItem == [id |-> 0, v |-> "-"]

None == <<>>
Some(x) == <<x>>
isNone(o) == o = <<>>
isSome(o) == Len(o) = 1

MutationTypes == {"insert", "update", "delete"}
Mutation(t, k, val) == [type |-> t, key |-> k, modified |-> Item(k, val)]
NoTx == [type |-> "none", mutations |-> <<>>]

\* the transactions the host submits: same-type batches of one or two rows
Batch(t, ms) == [type |-> t, mutations |-> ms]
Transactions ==
    { Batch("insert", <<Mutation("insert", 3, "a")>>),
      Batch("update", <<Mutation("update", 1, "b")>>),
      Batch("delete", <<Mutation("delete", 2, "b")>>),
      Batch("update", <<Mutation("update", 1, "b"), Mutation("update", 2, "a")>>) }

\* what config.effect (the DataSource) may resolve to
QueryResults == { <<>>, <<Item(1, "a"), Item(2, "b")>> }

\* what a mutation handler may resolve to
Void == [kind |-> "void", items |-> <<>>, refetch |-> FALSE]
Canonical(items) == [kind |-> "list", items |-> items, refetch |-> FALSE]
Refetch(b) == [kind |-> "refetch", items |-> <<>>, refetch |-> b]
Unset == [kind |-> "unset", items |-> <<>>, refetch |-> FALSE]
ServerResponses ==
    { Void, Refetch(TRUE), Refetch(FALSE),
      Canonical(<<>>), Canonical(<<Item(1, "A")>>) }

\* a sink nothing was written to
NoSink == [open |-> FALSE, keys |-> {}, staged |-> {}]

\* ---------------------------------------------------------------- state
VARIABLES
    currentData,          \* currentDataRef
    originalData,         \* originalDataRef (the snapshot slot)
    collectionServiceRef, \* the captured session layer
    subscribed,           \* sync() was called and its cleanup not yet
    nsubs,                \* sessions handed to sync() so far
    ncalls,               \* calls of sync, cleanup and sendEffectTransaction so far
    nfails,               \* failures of the sink and the DataSource so far
    maxInFlight,          \* how many sendEffectTransaction calls the host overlaps
    ready,                \* markReady calls per session
    pc, effectHandler, tx, resp, data, svc, orig, out, defect, err,
    txOps, rbOps, isOps, syncOut, rbOut,
    snap,                 \* what the settlement of each runner wrote to originalData
    atSubmit,             \* per runner: subscribed, when its submit was called
    keyedSink,            \* whether the sink is followed as a keyed store
    sink                  \* per session: the sink the CollectionService calls reach

vars == <<currentData, originalData, collectionServiceRef, subscribed,
          nsubs, ncalls, nfails, maxInFlight, ready,
          pc, effectHandler, tx, resp, data, svc, orig, out, defect, err,
          txOps, rbOps, isOps, syncOut, rbOut, snap, atSubmit, keyedSink, sink>>


\* the state after localEffectCollectionOptions(config) returned
Constructed ==
    /\ currentData = <<>>
    /\ originalData = None
    /\ collectionServiceRef = None
    /\ subscribed = FALSE
    /\ nsubs = 0 /\ ncalls = 0 /\ nfails = 0
    /\ ready = [s \in 1..MaxCalls |-> 0]
    /\ pc = [r \in Runners |-> "idle"]
    /\ effectHandler = [r \in Runners |-> FALSE]
    /\ tx = [r \in Runners |-> NoTx]
    /\ resp = [r \in Runners |-> Unset]
    /\ data = [r \in Runners |-> <<>>]
    /\ svc = [r \in Runners |-> 0]
    /\ orig = [r \in Runners |-> None]
    /\ snap = [r \in Runners |-> None]
    /\ atSubmit = [r \in Runners |-> FALSE]
    /\ sink = [s \in 1..MaxCalls |-> NoSink]
    /\ out = [r \in Runners |-> "none"]
    /\ defect = [r \in Runners |-> "none"]
    /\ txOps = [r \in Runners |-> <<>>]
    /\ rbOps = [r \in Runners |-> <<>>]
    /\ isOps = [r \in Runners |-> <<>>]
    /\ syncOut = [r \in Runners |-> "none"]
    /\ err = [r \in Runners |-> "none"]
    /\ rbOut = [r \in Runners |-> "none"]

\* a host that awaits every mutation before it submits the next one
Init == Constructed /\ maxInFlight = 1 /\ keyedSink = FALSE

\* a host that submits a mutation while another one is still in flight, once
\* the initial sync of its subscription has ended
InitOverlap == Constructed /\ maxInFlight = 2 /\ keyedSink = FALSE

\* the host of Init, with the sink of every session followed as a keyed store
InitSink == Constructed /\ maxInFlight = 1 /\ keyedSink = TRUE

\* ---------------------------------------------------------------- helpers
Op(t, item, ok) == [type |-> t, value |-> item, ok |-> ok]

\* CollectionService.begin / commit: one sink call, which may throw
begin(ok) == <<Op("begin", NoItem, ok)>>
commit(ok) == <<Op("commit", NoItem, ok)>>

\* Effect.all(items.map(item => collectionService.write({type, value: item}))):
\* sequential, stops at the first failing write (failAt = 0: none fails)
writeAll_all(t, items, failAt) ==
    [i \in 1..Len(items) |-> Op(t, items[i], i # failAt)]
writeAll(t, items, failAt) ==
    [i \in 1..(IF failAt = 0 THEN Len(items) ELSE failAt) |->
        Op(t, items[i], i # failAt)]

\* the sink behind syncParams.begin / write / commit, read as a keyed store:
\* begin opens a transaction on the committed keys, a write inside it stages
\* the key of its item, commit publishes what was staged; a call that throws
\* changes nothing
sinkCall(s, o) ==
    IF ~o.ok THEN s
    ELSE CASE o.type = "begin" -> [open |-> TRUE, keys |-> s.keys, staged |-> s.keys]
           [] o.type = "commit" -> [open |-> FALSE, keys |-> s.staged, staged |-> s.staged]
           [] o.type = "insert" ->
                IF s.open THEN [s EXCEPT !.staged = @ \cup {getKey(o.value)}] ELSE s
           [] OTHER ->
                IF s.open THEN [s EXCEPT !.staged = @ \ {getKey(o.value)}] ELSE s
RECURSIVE sinkCalls(_, _)
sinkCalls(s, ops) ==
    IF ops = <<>> THEN s ELSE sinkCalls(sinkCall(s, Head(ops)), Tail(ops))
\* the sinks after the calls ops were issued on the session
issued(session, ops) ==
    IF keyedSink THEN [sink EXCEPT ![session] = sinkCalls(@, ops)] ELSE sink

optimisticKeys_first(t) == { t.mutations[1].key }
optimisticKeys(t) == { t.mutations[i].key : i \in 1..Len(t.mutations) }
modifiedOf(ms) == [i \in 1..Len(ms) |-> ms[i].modified]

\* removeOptimisticKeys: Ref.set(refs.originalData, Option.some(currentData)),
\* whatever the slot held
captureOriginalData_ifEmpty(slot, cur) == IF isNone(slot) THEN Some(cur) ELSE slot
captureOriginalData(slot, cur) == Some(cur)

\* removeOptimisticKeys: the filtered list written back to currentData
removeOptimisticKeys_none(keys, cur) == cur
removeOptimisticKeys_kept(keys, cur) == SelectSeq(cur, LAMBDA item : getKey(item) \in keys)
removeOptimisticKeys(keys, cur) == SelectSeq(cur, LAMBDA item : getKey(item) \notin keys)

\* budget of injected sink failures
MayFail(ok) == ok \/ nfails < MaxFails
Count(ok) == IF ok THEN nfails ELSE nfails + 1
FailChoices(items) == 0..Len(items)

\* ---------------------------------------------------------------- sync()
\* sync(params): capture the session layer and fork the initial sync fiber,
\* which runs synchronously up to the DataSource query
sync ==
    /\ ~subscribed
    /\ ncalls < MaxCalls
    /\ ncalls' = ncalls + 1
    /\ subscribed' = TRUE
    /\ nsubs' = nsubs + 1
    /\ collectionServiceRef' = Some(nsubs + 1)
    /\ pc' = [pc EXCEPT ![Fiber] = "is_query"]
    /\ svc' = [svc EXCEPT ![Fiber] = nsubs + 1]
    /\ data' = [data EXCEPT ![Fiber] = <<>>]
    /\ isOps' = [isOps EXCEPT ![Fiber] = <<>>]
    /\ syncOut' = [syncOut EXCEPT ![Fiber] = "none"]
    /\ UNCHANGED <<currentData, originalData, nfails, maxInFlight, keyedSink, atSubmit, ready,
                   effectHandler, tx, resp, orig, snap, out, defect, err,
                   txOps, rbOps, rbOut, sink>>

\* the cleanup returned by sync(): reset both refs, then interrupt the fiber
\* and wait for its exit (onExit calls markReady when the fiber still ran)
resetRefs_keepSnapshot == [currentData |-> <<>>, originalData |-> originalData]
resetRefs == [currentData |-> <<>>, originalData |-> None]

cleanup_noInterrupt ==
    /\ subscribed
    /\ ncalls < MaxCalls
    /\ ncalls' = ncalls + 1
    /\ subscribed' = FALSE
    /\ currentData' = resetRefs.currentData
    /\ originalData' = resetRefs.originalData
    /\ UNCHANGED <<pc, syncOut, ready, collectionServiceRef, nsubs, nfails, maxInFlight, keyedSink, atSubmit,
                   effectHandler, tx, resp, data, svc, orig, snap, out, defect, err,
                   txOps, rbOps, isOps, rbOut, sink>>

cleanup ==
    /\ subscribed
    /\ ncalls < MaxCalls
    /\ ncalls' = ncalls + 1
    /\ subscribed' = FALSE
    /\ currentData' = resetRefs.currentData
    /\ originalData' = resetRefs.originalData
    /\ IF pc[Fiber] # "done"
         THEN /\ pc' = [pc EXCEPT ![Fiber] = "done"]
              /\ syncOut' = [syncOut EXCEPT ![Fiber] = "interrupted"]
              /\ ready' = [ready EXCEPT ![svc[Fiber]] = @ + 1]
         ELSE UNCHANGED <<pc, syncOut, ready>>
    /\ UNCHANGED <<collectionServiceRef, nsubs, nfails, maxInFlight, keyedSink, atSubmit,
                   effectHandler, tx, resp, data, svc, orig, snap, out, defect, err,
                   txOps, rbOps, isOps, rbOut, sink>>

\* ---------------------------------------------------------------- runInitialSync
\* end of a runInitialSync run: the fiber's onExit calls markReady; inside
\* sendTransaction the catchAll turns any failure into a logged success
EndSync_always(r, res) ==
    /\ pc' = [pc EXCEPT ![r] = "done"]
    /\ syncOut' = [syncOut EXCEPT ![r] = res]
    /\ ready' = [ready EXCEPT ![svc[r]] = @ + 1]
    /\ out' = IF r = Fiber THEN out ELSE [out EXCEPT ![r] = "ok"]
EndSync_rollsBack(r, res) ==
    /\ pc' = [pc EXCEPT ![r] = IF r # Fiber /\ res # "ok" THEN "rb_begin" ELSE "done"]
    /\ syncOut' = [syncOut EXCEPT ![r] = res]
    /\ ready' = IF r = Fiber THEN [ready EXCEPT ![svc[r]] = @ + 1] ELSE ready
    /\ out' = IF r = Fiber \/ res # "ok" THEN out ELSE [out EXCEPT ![r] = "ok"]
EndSync(r, res) ==
    /\ pc' = [pc EXCEPT ![r] = "done"]
    /\ syncOut' = [syncOut EXCEPT ![r] = res]
    /\ ready' = IF r = Fiber THEN [ready EXCEPT ![svc[r]] = @ + 1] ELSE ready
    /\ out' = IF r = Fiber THEN out ELSE [out EXCEPT ![r] = "ok"]

\* runEffectQuery
runEffectQuery(r) ==
    /\ pc[r] = "is_query"
    /\ \/ \E d \in QueryResults :
            /\ data' = [data EXCEPT ![r] = d]
            /\ pc' = [pc EXCEPT ![r] = "is_begin"]
            /\ UNCHANGED <<nfails, syncOut, ready, out>>
       \/ /\ nfails < MaxFails
          /\ nfails' = nfails + 1
          /\ EndSync(r, "SyncDataResponseError")
          /\ UNCHANGED data
    /\ UNCHANGED <<currentData, originalData, collectionServiceRef, subscribed, maxInFlight, keyedSink, atSubmit,
                   nsubs, ncalls, effectHandler, tx, resp, svc, orig, snap, defect,
                   err, txOps, rbOps, isOps, rbOut, sink>>

syncBegin_skipClear(r) ==
    /\ pc[r] = "is_begin"
    /\ \E ok \in BOOLEAN :
        /\ MayFail(ok)
        /\ nfails' = Count(ok)
        /\ isOps' = [isOps EXCEPT ![r] = @ \o begin(ok)]
        /\ sink' = issued(svc[r], begin(ok))
        /\ IF ok
             THEN /\ pc' = [pc EXCEPT ![r] = "is_insert"]
                  /\ UNCHANGED <<syncOut, ready, out>>
             ELSE EndSync(r, "BeginSyncError")
    /\ UNCHANGED <<currentData, originalData, collectionServiceRef, subscribed, maxInFlight, keyedSink, atSubmit,
                   nsubs, ncalls, effectHandler, tx, resp, data, svc, orig, snap,
                   defect, err, txOps, rbOps, rbOut>>

syncBegin(r) ==
    /\ pc[r] = "is_begin"
    /\ \E ok \in BOOLEAN :
        /\ MayFail(ok)
        /\ nfails' = Count(ok)
        /\ isOps' = [isOps EXCEPT ![r] = @ \o begin(ok)]
        /\ sink' = issued(svc[r], begin(ok))
        /\ IF ok
             THEN /\ pc' = [pc EXCEPT ![r] = "is_clear"]
                  /\ UNCHANGED <<syncOut, ready, out>>
             ELSE EndSync(r, "BeginSyncError")
    /\ UNCHANGED <<currentData, originalData, collectionServiceRef, subscribed, maxInFlight, keyedSink, atSubmit,
                   nsubs, ncalls, effectHandler, tx, resp, data, svc, orig, snap,
                   defect, err, txOps, rbOps, rbOut>>

\* const currentItems = yield* Ref.get(refs.currentData)
currentItems_queried(r) == data[r]
currentItems(r) == currentData

\* clearCollection: one delete for every item of currentData
clearCollection(r) ==
    /\ pc[r] = "is_clear"
    /\ \E f \in FailChoices(currentItems(r)) :
        /\ MayFail(f = 0)
        /\ nfails' = Count(f = 0)
        /\ isOps' = [isOps EXCEPT ![r] = @ \o writeAll("delete", currentItems(r), f)]
        /\ sink' = issued(svc[r], writeAll("delete", currentItems(r), f))
        /\ IF f = 0
             THEN /\ pc' = [pc EXCEPT ![r] = "is_insert"]
                  /\ UNCHANGED <<syncOut, ready, out>>
             ELSE EndSync(r, "DeleteCollectionItemError")
    /\ UNCHANGED <<currentData, originalData, collectionServiceRef, subscribed, maxInFlight, keyedSink, atSubmit,
                   nsubs, ncalls, effectHandler, tx, resp, data, svc, orig, snap,
                   defect, err, txOps, rbOps, rbOut>>

syncInsert(r) ==
    /\ pc[r] = "is_insert"
    /\ \E f \in FailChoices(data[r]) :
        /\ MayFail(f = 0)
        /\ nfails' = Count(f = 0)
        /\ isOps' = [isOps EXCEPT ![r] = @ \o writeAll("insert", data[r], f)]
        /\ sink' = issued(svc[r], writeAll("insert", data[r], f))
        /\ IF f = 0
             THEN /\ pc' = [pc EXCEPT ![r] = "is_commit"]
                  /\ UNCHANGED <<syncOut, ready, out>>
             ELSE EndSync(r, "CreateCollectionError")
    /\ UNCHANGED <<currentData, originalData, collectionServiceRef, subscribed, maxInFlight, keyedSink, atSubmit,
                   nsubs, ncalls, effectHandler, tx, resp, data, svc, orig, snap,
                   defect, err, txOps, rbOps, rbOut>>

\* Ref.set(refs.currentData, data) is reached only when commit did not fail
committedData_always(ok, queried, cur) == queried
committedData(ok, queried, cur) == IF ok THEN queried ELSE cur

\* commit, then Ref.set(refs.currentData, data)
syncCommit(r) ==
    /\ pc[r] = "is_commit"
    /\ \E ok \in BOOLEAN :
        /\ MayFail(ok)
        /\ nfails' = Count(ok)
        /\ isOps' = [isOps EXCEPT ![r] = @ \o commit(ok)]
        /\ sink' = issued(svc[r], commit(ok))
        /\ currentData' = committedData(ok, data[r], currentData)
        /\ EndSync(r, IF ok THEN "ok" ELSE "CommitSyncError")
    /\ UNCHANGED <<originalData, collectionServiceRef, subscribed, maxInFlight, keyedSink, atSubmit,
                   nsubs, ncalls, effectHandler, tx, resp, data, svc, orig, snap,
                   defect, err, txOps, rbOps, rbOut>>

runInitialSync(r) ==
    \/ runEffectQuery(r)
    \/ syncBegin(r)
    \/ clearCollection(r)
    \/ syncInsert(r)
    \/ syncCommit(r)

\* ---------------------------------------------------------------- sendEffectTransaction
\* sendEffectTransaction(params, effectHandler, mutationType): returns at once
\* without a handler; dies when no layer was captured; else starts
\* sendTransaction with the layer read from collectionServiceRef.  The host
\* has at most maxInFlight calls in flight, and starts a call while another
\* one is in flight only once the initial sync of its subscription has ended
InFlight == { q \in Procs : pc[q] \notin {"idle", "done"} }
FreeSlot == CHOOSE q \in Procs \ InFlight : \A o \in Procs \ InFlight : q = "p1" \/ o # "p1"

\* Layer.unwrapEffect: no captured layer is a defect
layerMissing_never(ref) == FALSE
layerMissing(ref) == isNone(ref)
layerSession(ref) == IF isNone(ref) THEN 0 ELSE ref[1]

sendEffectTransaction(p) ==
    /\ Cardinality(InFlight) < maxInFlight
    /\ p = FreeSlot
    /\ InFlight # {} => pc[Fiber] = "done"
    /\ ncalls < MaxCalls
    /\ ncalls' = ncalls + 1
    /\ \E t \in Transactions, h \in BOOLEAN :
        /\ tx' = [tx EXCEPT ![p] = t]
        /\ effectHandler' = [effectHandler EXCEPT ![p] = h]
        /\ IF ~h
             THEN /\ pc' = [pc EXCEPT ![p] = "done"]
                  /\ out' = [out EXCEPT ![p] = "ok"]
                  /\ defect' = [defect EXCEPT ![p] = "none"]
                  /\ svc' = [svc EXCEPT ![p] = 0]
             ELSE IF layerMissing(collectionServiceRef)
             THEN /\ pc' = [pc EXCEPT ![p] = "done"]
                  /\ out' = [out EXCEPT ![p] = "rejected"]
                  /\ defect' = [defect EXCEPT ![p] = "Collection not initialized"]
                  /\ svc' = [svc EXCEPT ![p] = 0]
             ELSE /\ pc' = [pc EXCEPT ![p] = "st_handler"]
                  /\ out' = [out EXCEPT ![p] = "pending"]
                  /\ defect' = [defect EXCEPT ![p] = "none"]
                  /\ svc' = [svc EXCEPT ![p] = layerSession(collectionServiceRef)]
    /\ resp' = [resp EXCEPT ![p] = Unset]
    /\ data' = [data EXCEPT ![p] = <<>>]
    /\ orig' = [orig EXCEPT ![p] = None]
    /\ snap' = [snap EXCEPT ![p] = None]
    /\ atSubmit' = [atSubmit EXCEPT ![p] = subscribed]
    /\ err' = [err EXCEPT ![p] = "none"]
    /\ txOps' = [txOps EXCEPT ![p] = <<>>]
    /\ rbOps' = [rbOps EXCEPT ![p] = <<>>]
    /\ isOps' = [isOps EXCEPT ![p] = <<>>]
    /\ syncOut' = [syncOut EXCEPT ![p] = "none"]
    /\ rbOut' = [rbOut EXCEPT ![p] = "none"]
    /\ UNCHANGED <<currentData, originalData, collectionServiceRef, subscribed, maxInFlight, keyedSink,
                   nsubs, nfails, ready, sink>>

\* ---------------------------------------------------------------- sendTransaction
\* Effect.onError of sendEffectTransaction: a failed settlement goes on with
\* rollbackTransaction
Fail_noRollback(p, e) ==
    /\ pc' = [pc EXCEPT ![p] = "done"]
    /\ err' = [err EXCEPT ![p] = e]
Fail(p, e) ==
    /\ pc' = [pc EXCEPT ![p] = "rb_begin"]
    /\ err' = [err EXCEPT ![p] = e]

deleteTransactions_all(t) == t.mutations
deleteTransactions(t) == SelectSeq(t.mutations, LAMBDA m : m.type = "delete")
itemsToRemove_all(t) == modifiedOf(t.mutations)
itemsToRemove(t) == modifiedOf(SelectSeq(t.mutations, LAMBDA m : m.type # "delete"))

runHandler_afterBegin(p) ==
    /\ pc[p] = "st_handler"
    /\ \/ \E r \in ServerResponses :
            /\ resp' = [resp EXCEPT ![p] = r]
            /\ pc' = [pc EXCEPT ![p] = "st_begin"]
            /\ UNCHANGED <<err, txOps>>
       \/ /\ Fail(p, "RunHandlerError")
          /\ txOps' = [txOps EXCEPT ![p] = @ \o begin(TRUE)]
          /\ UNCHANGED resp
    /\ UNCHANGED <<currentData, originalData, collectionServiceRef, subscribed, maxInFlight, keyedSink, atSubmit,
                   nsubs, ncalls, nfails, ready, effectHandler, tx, data, svc,
                   orig, snap, out, defect, rbOps, isOps, syncOut, rbOut, sink>>

\* effect(params): the mutation handler resolves or fails
runHandler(p) ==
    /\ pc[p] = "st_handler"
    /\ \/ \E r \in ServerResponses :
            /\ resp' = [resp EXCEPT ![p] = r]
            /\ pc' = [pc EXCEPT ![p] = "st_begin"]
            /\ UNCHANGED err
       \/ /\ Fail(p, "RunHandlerError")
          /\ UNCHANGED resp
    /\ UNCHANGED <<currentData, originalData, collectionServiceRef, subscribed, maxInFlight, keyedSink, atSubmit,
                   nsubs, ncalls, nfails, ready, effectHandler, tx, data, svc,
                   orig, snap, out, defect, txOps, rbOps, isOps, syncOut, rbOut, sink>>

sendBegin(p) ==
    /\ pc[p] = "st_begin"
    /\ \E ok \in BOOLEAN :
        /\ MayFail(ok)
        /\ nfails' = Count(ok)
        /\ txOps' = [txOps EXCEPT ![p] = @ \o begin(ok)]
        /\ sink' = issued(svc[p], begin(ok))
        /\ IF ok
             THEN pc' = [pc EXCEPT ![p] = "st_delete"] /\ UNCHANGED err
             ELSE Fail(p, "BeginSyncError")
    /\ UNCHANGED <<currentData, originalData, collectionServiceRef, subscribed, maxInFlight, keyedSink, atSubmit,
                   nsubs, ncalls, ready, effectHandler, tx, resp, data, svc,
                   orig, snap, out, defect, rbOps, isOps, syncOut, rbOut>>

\* the branch on serverResponse: !serverResponse, Array.isArray, else
nextBranch_noVoidCheck(response) ==
    IF response.kind = "list" THEN "st_remove" ELSE "st_commit_refetch"
nextBranch(response) ==
    CASE response.kind = "void" -> "st_commit_void"
      [] response.kind = "list" -> "st_remove"
      [] OTHER -> "st_commit_refetch"

\* the deletes of the batch's delete mutations, then the branch on serverResponse
sendDelete(p) ==
    /\ pc[p] = "st_delete"
    /\ LET items == modifiedOf(deleteTransactions(tx[p])) IN
       \E f \in FailChoices(items) :
        /\ MayFail(f = 0)
        /\ nfails' = Count(f = 0)
        /\ txOps' = [txOps EXCEPT ![p] = @ \o writeAll("delete", items, f)]
        /\ sink' = issued(svc[p], writeAll("delete", items, f))
        /\ IF f = 0
             THEN /\ pc' = [pc EXCEPT ![p] = nextBranch(resp[p])]
                  /\ UNCHANGED err
             ELSE Fail(p, "DeleteCollectionItemError")
    /\ UNCHANGED <<currentData, originalData, collectionServiceRef, subscribed, maxInFlight, keyedSink, atSubmit,
                   nsubs, ncalls, ready, effectHandler, tx, resp, data, svc,
                   orig, snap, out, defect, rbOps, isOps, syncOut, rbOut>>

\* if (!serverResponse): commit and return
sendCommitVoid(p) ==
    /\ pc[p] = "st_commit_void"
    /\ \E ok \in BOOLEAN :
        /\ MayFail(ok)
        /\ nfails' = Count(ok)
        /\ txOps' = [txOps EXCEPT ![p] = @ \o commit(ok)]
        /\ sink' = issued(svc[p], commit(ok))
        /\ IF ok
             THEN /\ pc' = [pc EXCEPT ![p] = "done"]
                  /\ out' = [out EXCEPT ![p] = "ok"]
                  /\ UNCHANGED err
             ELSE Fail(p, "CommitSyncError") /\ UNCHANGED out
    /\ UNCHANGED <<currentData, originalData, collectionServiceRef, subscribed, maxInFlight, keyedSink, atSubmit,
                   nsubs, ncalls, ready, effectHandler, tx, resp, data, svc,
                   orig, snap, defect, rbOps, isOps, syncOut, rbOut>>

\* Array.isArray(serverResponse): removeOptimisticKeys, append the server
\* data, then delete the modified items of the non-delete mutations
sendRemove(p) ==
    /\ pc[p] = "st_remove"
    /\ originalData' = captureOriginalData(originalData, currentData)
    /\ snap' = [snap EXCEPT ![p] = Some(currentData)]
    /\ currentData' = removeOptimisticKeys(optimisticKeys(tx[p]), currentData) \o resp[p].items
    /\ \E f \in FailChoices(itemsToRemove(tx[p])) :
        /\ MayFail(f = 0)
        /\ nfails' = Count(f = 0)
        /\ txOps' = [txOps EXCEPT ![p] = @ \o writeAll("delete", itemsToRemove(tx[p]), f)]
        /\ sink' = issued(svc[p], writeAll("delete", itemsToRemove(tx[p]), f))
        /\ IF f = 0
             THEN pc' = [pc EXCEPT ![p] = "st_insert"] /\ UNCHANGED err
             ELSE Fail(p, "DeleteCollectionItemError")
    /\ UNCHANGED <<collectionServiceRef, subscribed, maxInFlight, keyedSink, atSubmit,
                   nsubs, ncalls, ready, effectHandler, tx, resp, data, svc,
                   orig, out, defect, rbOps, isOps, syncOut, rbOut>>

sendInsert(p) ==
    /\ pc[p] = "st_insert"
    /\ \E f \in FailChoices(resp[p].items) :
        /\ MayFail(f = 0)
        /\ nfails' = Count(f = 0)
        /\ txOps' = [txOps EXCEPT ![p] = @ \o writeAll("insert", resp[p].items, f)]
        /\ sink' = issued(svc[p], writeAll("insert", resp[p].items, f))
        /\ IF f = 0
             THEN pc' = [pc EXCEPT ![p] = "st_commit"] /\ UNCHANGED err
             ELSE Fail(p, "CreateCollectionError")
    /\ UNCHANGED <<currentData, originalData, collectionServiceRef, subscribed, maxInFlight, keyedSink, atSubmit,
                   nsubs, ncalls, ready, effectHandler, tx, resp, data, svc,
                   orig, snap, out, defect, rbOps, isOps, syncOut, rbOut>>

sendCommit(p) ==
    /\ pc[p] = "st_commit"
    /\ \E ok \in BOOLEAN :
        /\ MayFail(ok)
        /\ nfails' = Count(ok)
        /\ txOps' = [txOps EXCEPT ![p] = @ \o commit(ok)]
        /\ sink' = issued(svc[p], commit(ok))
        /\ IF ok
             THEN /\ pc' = [pc EXCEPT ![p] = "done"]
                  /\ out' = [out EXCEPT ![p] = "ok"]
                  /\ UNCHANGED err
             ELSE Fail(p, "CommitSyncError") /\ UNCHANGED out
    /\ UNCHANGED <<currentData, originalData, collectionServiceRef, subscribed, maxInFlight, keyedSink, atSubmit,
                   nsubs, ncalls, ready, effectHandler, tx, resp, data, svc,
                   orig, snap, defect, rbOps, isOps, syncOut, rbOut>>

\* the RefetchResponse branch: commit, removeOptimisticKeys, then return or
\* go on with runInitialSync
sendCommitRefetch(p) ==
    /\ pc[p] = "st_commit_refetch"
    /\ \E ok \in BOOLEAN :
        /\ MayFail(ok)
        /\ nfails' = Count(ok)
        /\ txOps' = [txOps EXCEPT ![p] = @ \o commit(ok)]
        /\ sink' = issued(svc[p], commit(ok))
        /\ IF ok
             THEN /\ originalData' = captureOriginalData(originalData, currentData)
                  /\ snap' = [snap EXCEPT ![p] = Some(currentData)]
                  /\ currentData' = removeOptimisticKeys(optimisticKeys(tx[p]), currentData)
                  /\ pc' = [pc EXCEPT ![p] = IF resp[p].refetch THEN "is_query" ELSE "done"]
                  /\ out' = [out EXCEPT ![p] = IF resp[p].refetch THEN @ ELSE "ok"]
                  /\ UNCHANGED err
             ELSE /\ Fail(p, "CommitSyncError")
                  /\ UNCHANGED <<currentData, originalData, out, snap>>
    /\ UNCHANGED <<collectionServiceRef, subscribed, maxInFlight, keyedSink, atSubmit,
                   nsubs, ncalls, ready, effectHandler, tx, resp, data, svc,
                   orig, defect, rbOps, isOps, syncOut, rbOut>>

sendTransaction(p) ==
    \/ runHandler(p)
    \/ sendBegin(p)
    \/ sendDelete(p)
    \/ sendCommitVoid(p)
    \/ sendRemove(p)
    \/ sendInsert(p)
    \/ sendCommit(p)
    \/ sendCommitRefetch(p)

\* ---------------------------------------------------------------- rollbackTransaction
\* end of rollbackTransaction: catchAll logs a failure; the promise of
\* sendEffectTransaction rejects with the settlement's error
EndRollback_resolves(p, res, d) ==
    /\ pc' = [pc EXCEPT ![p] = "done"]
    /\ rbOut' = [rbOut EXCEPT ![p] = res]
    /\ out' = [out EXCEPT ![p] = "ok"]
    /\ defect' = [defect EXCEPT ![p] = d]
EndRollback(p, res, d) ==
    /\ pc' = [pc EXCEPT ![p] = "done"]
    /\ rbOut' = [rbOut EXCEPT ![p] = res]
    /\ out' = [out EXCEPT ![p] = "rejected"]
    /\ defect' = [defect EXCEPT ![p] = d]

itemsToDelete_deletes(t) == modifiedOf(deleteTransactions(t))
itemsToDelete(t) == modifiedOf(t.mutations)
itemsToInsert_all(t, original) == original
itemsToInsert(t, original) == SelectSeq(original, LAMBDA item : getKey(item) \in optimisticKeys(t))

rollbackBegin_reuse(p) ==
    /\ pc[p] = "rb_begin"
    /\ pc' = [pc EXCEPT ![p] = "rb_delete"]
    /\ UNCHANGED <<currentData, originalData, collectionServiceRef, subscribed, maxInFlight,
                   keyedSink, atSubmit, nsubs, ncalls, nfails, ready, effectHandler, tx, resp, data,
                   svc, orig, snap, err, txOps, rbOps, isOps, syncOut, rbOut, out, defect,
                   sink>>

\* begin a new sink transaction
rollbackBegin(p) ==
    /\ pc[p] = "rb_begin"
    /\ \E ok \in BOOLEAN :
        /\ MayFail(ok)
        /\ nfails' = Count(ok)
        /\ rbOps' = [rbOps EXCEPT ![p] = @ \o begin(ok)]
        /\ sink' = issued(svc[p], begin(ok))
        /\ IF ok
             THEN /\ pc' = [pc EXCEPT ![p] = "rb_delete"]
                  /\ UNCHANGED <<rbOut, out, defect>>
             ELSE EndRollback(p, "BeginSyncError", "none")
    /\ UNCHANGED <<currentData, originalData, collectionServiceRef, subscribed, maxInFlight, keyedSink, atSubmit,
                   nsubs, ncalls, ready, effectHandler, tx, resp, data, svc,
                   orig, snap, err, txOps, isOps, syncOut>>

rollbackDelete_continues(p) ==
    /\ pc[p] = "rb_delete"
    /\ \E f \in FailChoices(itemsToDelete(tx[p])) :
        /\ MayFail(f = 0)
        /\ nfails' = Count(f = 0)
        /\ rbOps' = [rbOps EXCEPT ![p] = @ \o writeAll("delete", itemsToDelete(tx[p]), f)]
        /\ sink' = issued(svc[p], writeAll("delete", itemsToDelete(tx[p]), f))
        /\ pc' = [pc EXCEPT ![p] = "rb_restore"]
    /\ UNCHANGED <<currentData, originalData, collectionServiceRef, subscribed, maxInFlight, keyedSink, atSubmit,
                   nsubs, ncalls, ready, effectHandler, tx, resp, data, svc,
                   orig, snap, err, txOps, isOps, syncOut, rbOut, out, defect>>

\* delete the modified item of every mutation of the batch
rollbackDelete(p) ==
    /\ pc[p] = "rb_delete"
    /\ \E f \in FailChoices(itemsToDelete(tx[p])) :
        /\ MayFail(f = 0)
        /\ nfails' = Count(f = 0)
        /\ rbOps' = [rbOps EXCEPT ![p] = @ \o writeAll("delete", itemsToDelete(tx[p]), f)]
        /\ sink' = issued(svc[p], writeAll("delete", itemsToDelete(tx[p]), f))
        /\ IF f = 0
             THEN /\ pc' = [pc EXCEPT ![p] = "rb_restore"]
                  /\ UNCHANGED <<rbOut, out, defect>>
             ELSE EndRollback(p, "DeleteCollectionItemError", "none")
    /\ UNCHANGED <<currentData, originalData, collectionServiceRef, subscribed, maxInFlight, keyedSink, atSubmit,
                   nsubs, ncalls, ready, effectHandler, tx, resp, data, svc,
                   orig, snap, err, txOps, isOps, syncOut>>

\* read originalData: none -> commit and die; some -> restore currentData and
\* re-insert the snapshot items with an optimistic key
rollbackRestore(p) ==
    /\ pc[p] = "rb_restore"
    /\ orig' = [orig EXCEPT ![p] = originalData]
    /\ IF isNone(originalData)
         THEN \E ok \in BOOLEAN :
                /\ MayFail(ok)
                /\ nfails' = Count(ok)
                /\ rbOps' = [rbOps EXCEPT ![p] = @ \o commit(ok)]
                /\ sink' = issued(svc[p], commit(ok))
                /\ IF ok
                     THEN EndRollback(p, "nothing to restore", "nothing to restore")
                     ELSE EndRollback(p, "CommitSyncError", "none")
                /\ UNCHANGED currentData
         ELSE \E f \in FailChoices(itemsToInsert(tx[p], originalData[1])) :
                /\ MayFail(f = 0)
                /\ nfails' = Count(f = 0)
                /\ currentData' = originalData[1]
                /\ rbOps' = [rbOps EXCEPT ![p] =
                        @ \o writeAll("insert", itemsToInsert(tx[p], originalData[1]), f)]
                /\ sink' = issued(svc[p], writeAll("insert", itemsToInsert(tx[p], originalData[1]), f))
                /\ IF f = 0
                     THEN /\ pc' = [pc EXCEPT ![p] = "rb_commit"]
                          /\ UNCHANGED <<rbOut, out, defect>>
                     ELSE EndRollback(p, "CreateCollectionError", "none")
    /\ UNCHANGED <<originalData, collectionServiceRef, subscribed, maxInFlight, keyedSink, atSubmit,
                   nsubs, ncalls, ready, effectHandler, tx, resp, data, svc,
                   err, txOps, isOps, syncOut, snap>>

rollbackCommit(p) ==
    /\ pc[p] = "rb_commit"
    /\ \E ok \in BOOLEAN :
        /\ MayFail(ok)
        /\ nfails' = Count(ok)
        /\ rbOps' = [rbOps EXCEPT ![p] = @ \o commit(ok)]
        /\ sink' = issued(svc[p], commit(ok))
        /\ EndRollback(p, IF ok THEN "restored" ELSE "CommitSyncError", "none")
    /\ UNCHANGED <<currentData, originalData, collectionServiceRef, subscribed, maxInFlight, keyedSink, atSubmit,
                   nsubs, ncalls, ready, effectHandler, tx, resp, data, svc,
                   orig, snap, err, txOps, isOps, syncOut>>

rollbackTransaction(p) ==
    \/ rollbackBegin(p)
    \/ rollbackDelete(p)
    \/ rollbackRestore(p)
    \/ rollbackCommit(p)

\* ---------------------------------------------------------------- specification
Next ==
    \/ sync
    \/ cleanup
    \/ \E r \in Runners : runInitialSync(r)
    \/ \E p \in Procs : sendEffectTransaction(p)
    \/ \E p \in Procs : sendTransaction(p)
    \/ \E p \in Procs : rollbackTransaction(p)

Spec == Init /\ [][Next]_vars
SpecOverlap == InitOverlap /\ [][Next]_vars
SpecSink == InitSink /\ [][Next]_vars

TypeOK ==
    /\ pc \in [Runners -> {"idle", "done", "is_query", "is_begin", "is_clear", "is_insert",
                           "is_commit", "st_handler", "st_begin", "st_delete",
                           "st_commit_void", "st_remove", "st_insert", "st_commit",
                           "st_commit_refetch", "rb_begin", "rb_delete", "rb_restore",
                           "rb_commit"}]
    /\ nsubs \in 0..MaxCalls /\ ncalls \in 0..MaxCalls /\ nfails \in 0..MaxFails
    /\ Len(originalData) <= 1

\* ---------------------------------------------------------------- properties
RECURSIVE KeepKeys(_, _)
\* the items of s whose key is in keys, in the order of s
KeepKeys(s, keys) ==
    IF s = <<>> THEN <<>>
    ELSE IF s[1].id \in keys THEN <<s[1]>> \o KeepKeys(Tail(s), keys)
    ELSE KeepKeys(Tail(s), keys)

BatchKeys(t) == { m.key : m \in { t.mutations[i] : i \in DOMAIN t.mutations } }
OkOp(t, item) == [type |-> t, value |-> item, ok |-> TRUE]
OkWrites(t, items) == [i \in DOMAIN items |-> OkOp(t, items[i])]
ModifiedItems(t) == [i \in DOMAIN t.mutations |-> t.mutations[i].modified]
Writes(ops) == SelectSeq(ops, LAMBDA o : o.type \in {"insert", "delete", "update"})

\* C1: a rollback that finds a snapshot and meets no sink failure sets
\* currentData to that snapshot, and its sink operations are exactly begin,
\* one delete per mutation (the modified item), one insert per snapshot item
\* whose key is a key of the batch, commit
C1_RollbackRestoresAffectedRows ==
    [][\A p \in Procs :
        /\ (pc[p] = "rb_restore" /\ pc'[p] = "rb_commit")
             => /\ isSome(originalData)
                /\ currentData' = originalData[1]
                /\ orig'[p] = originalData
        /\ (pc[p] = "rb_commit" /\ rbOut'[p] = "restored")
             => /\ currentData' = currentData
                /\ rbOps'[p] = <<OkOp("begin", NoItem)>>
                                 \o OkWrites("delete", ModifiedItems(tx[p]))
                                 \o OkWrites("insert", KeepKeys(orig[p][1], BatchKeys(tx[p])))
                                 \o <<OkOp("commit", NoItem)>>]_vars

\* a finished rollback that restored a snapshot holding a row of the batch and
\* a row outside it
C1_Witness ==
    \E p \in Procs :
        /\ pc[p] = "done" /\ rbOut[p] = "restored"
        /\ \E i, j \in DOMAIN orig[p][1] :
              /\ orig[p][1][i].id \in BatchKeys(tx[p])
              /\ orig[p][1][j].id \notin BatchKeys(tx[p])
        /\ currentData = orig[p][1]

\* ---- C2
C2_Tx == [type |-> "update", mutations |-> <<[type |-> "update", key |-> 1, modified |-> [id |-> 1, v |-> "b"]]>>]
C2_Response == [kind |-> "list", items |-> <<[id |-> 1, v |-> "A"]>>, refetch |-> FALSE]
C2_Local == <<[id |-> 1, v |-> "a"], [id |-> 2, v |-> "b"]>>
C2_Case(p) == tx[p] = C2_Tx /\ resp[p] = C2_Response
C2_SinkWrites ==
    <<OkOp("delete", [id |-> 1, v |-> "b"]), OkOp("insert", [id |-> 1, v |-> "A"])>>

\* C2 as stated: for local items [{1,a},{2,b}] and an update of id 1 answered
\* by [{1,A}], the settlement leaves currentData = [{1,A},{2,b}] in that
\* order, and its sink writes are delete(id 1) then insert({1,A})
C2_Original ==
    [][\A p \in Procs :
        /\ (C2_Case(p) /\ pc[p] = "st_remove" /\ pc'[p] # pc[p] /\ currentData = C2_Local)
             => currentData' = <<[id |-> 1, v |-> "A"], [id |-> 2, v |-> "b"]>>
        /\ (C2_Case(p) /\ pc[p] = "st_commit" /\ pc'[p] = "done")
             => Writes(txOps'[p]) = C2_SinkWrites]_vars

\* C2 amended: the canonical item is appended after the rows that were kept,
\* so currentData is [{2,b},{1,A}]; the later steps of the settlement do not
\* write currentData; the sink writes are delete(id 1) then insert({1,A})
C2_CanonicalReplaceAppends ==
    [][\A p \in Procs :
        /\ (C2_Case(p) /\ pc[p] = "st_remove" /\ pc'[p] # pc[p] /\ currentData = C2_Local)
             => /\ currentData' = <<[id |-> 2, v |-> "b"], [id |-> 1, v |-> "A"]>>
                /\ originalData' = <<C2_Local>>
        /\ (C2_Case(p) /\ pc[p] \in {"st_insert", "st_commit"} /\ pc'[p] # pc[p])
             => currentData' = currentData
        /\ (C2_Case(p) /\ pc[p] = "st_commit" /\ pc'[p] = "done")
             => /\ Writes(txOps'[p]) = C2_SinkWrites
                /\ out'[p] = "ok"]_vars

C2_Witness ==
    \E p \in Procs :
        /\ C2_Case(p) /\ pc[p] = "done" /\ out[p] = "ok"
        /\ originalData = <<C2_Local>>
        /\ currentData = <<[id |-> 2, v |-> "b"], [id |-> 1, v |-> "A"]>>

\* ---- C3
\* C3: a settlement whose handler returned nothing writes neither currentData
\* nor originalData in any of its steps, and when no sink call fails it ends
\* successfully with begin, the deletes of the batch's delete mutations, commit
C3_VoidSettlementFrame ==
    [][\A p \in Procs :
        /\ (pc[p] = "st_handler" /\ resp'[p].kind = "void")
             => (currentData' = currentData /\ originalData' = originalData)
        /\ (resp[p].kind = "void" /\ pc[p] \in {"st_begin", "st_delete", "st_commit_void", "st_commit_refetch", "st_remove"}
              /\ pc'[p] # pc[p])
             => /\ currentData' = currentData /\ originalData' = originalData
                /\ pc'[p] \in {"st_delete", "st_commit_void", "rb_begin", "done"}
        /\ (resp[p].kind = "void" /\ pc[p] \in {"st_commit_void", "st_commit_refetch"} /\ pc'[p] = "done")
             => /\ out'[p] = "ok"
                /\ txOps'[p] = <<OkOp("begin", NoItem)>>
                       \o OkWrites("delete", IF tx[p].type = "delete" THEN ModifiedItems(tx[p]) ELSE <<>>)
                       \o <<OkOp("commit", NoItem)>>]_vars

\* a successful void settlement of a delete batch while a snapshot and items exist
C3_Witness ==
    \E p \in Procs :
        /\ pc[p] = "done" /\ out[p] = "ok" /\ resp[p].kind = "void"
        /\ tx[p].type = "delete"
        /\ Len(txOps[p]) = 3
        /\ currentData # <<>>
        /\ isSome(originalData)

\* ---- C4
\* the settlement of p failed before it reached removeOptimisticKeys
NoCapture(p) ==
    \/ err[p] \in {"RunHandlerError", "BeginSyncError"}
    \/ resp[p].kind # "list"
    \/ (err[p] = "DeleteCollectionItemError" /\ tx[p].type = "delete")
Inserts(ops) == SelectSeq(ops, LAMBDA o : o.type = "insert")

\* C4: a rollback for a transaction whose settlement captured no snapshot
\* commits its deletes, issues no insert, ends with the defect
\* "nothing to restore" and does not write currentData
C4_Original ==
    [][\A p \in Procs :
        (pc[p] = "rb_restore" /\ pc'[p] # pc[p] /\ NoCapture(p))
          => /\ currentData' = currentData
             /\ Inserts(rbOps'[p]) = <<>>
             /\ rbOps'[p][Len(rbOps'[p])].type = "commit"
             /\ (rbOps'[p][Len(rbOps'[p])].ok => defect'[p] = "nothing to restore")]_vars

\* ---- C5
Quiet == \A p \in Procs : pc[p] \in {"idle", "done"}

\* C5: whenever no settlement and no rollback is in flight the snapshot slot
\* is empty
C5_Original == Quiet => isNone(originalData)

\* ---- C6
SubmitStep(p) == ncalls' = ncalls + 1 /\ tx'[p] # NoTx /\ pc[p] \in {"idle", "done"} /\ p = FreeSlot

\* C6: a submit with a handler before the first subscribe ends at once with
\* the defect "Collection not initialized", with no sink call of any kind,
\* and writes neither currentData nor originalData
C6_SubmitBeforeSubscribeDies ==
    [][\A p \in Procs :
        (SubmitStep(p) /\ effectHandler'[p] /\ nsubs = 0)
          => /\ pc'[p] = "done"
             /\ out'[p] = "rejected"
             /\ defect'[p] = "Collection not initialized"
             /\ txOps'[p] = <<>> /\ rbOps'[p] = <<>> /\ isOps'[p] = <<>>
             /\ currentData' = currentData /\ originalData' = originalData]_vars

C6_Witness ==
    \E p \in Procs :
        /\ nsubs = 0 /\ effectHandler[p] /\ pc[p] = "done"
        /\ defect[p] = "Collection not initialized"
        /\ txOps[p] = <<>> /\ rbOps[p] = <<>> /\ isOps[p] = <<>>

\* ---- C7
\* C7: a submit with a handler issued after the cleanup returned and before
\* the next subscribe ends with the defect "Collection not initialized" and
\* issues no sink call
C7_Original ==
    [][\A p \in Procs :
        (SubmitStep(p) /\ effectHandler'[p] /\ ~subscribed /\ nsubs > 0)
          => /\ pc'[p] = "done"
             /\ defect'[p] = "Collection not initialized"]_vars

\* ---- C8
\* C8: in the state in which the cleanup returns, wherever the initial sync
\* was, currentData is empty, originalData is none and the fiber has ended
C8_CleanupResetsRefs ==
    [][(subscribed /\ ~subscribed')
         => /\ currentData' = <<>>
            /\ originalData' = <<>>
            /\ pc'[Fiber] = "done"]_vars

\* the cleanup has interrupted the fiber after its first sink calls, after a
\* settlement had captured a snapshot
C8_Witness ==
    /\ ~subscribed /\ nsubs > 0
    /\ syncOut[Fiber] = "interrupted" /\ isOps[Fiber] # <<>>
    /\ \E p \in Procs : pc[p] = "done" /\ out[p] = "ok" /\ resp[p].kind = "list" /\ svc[p] = svc[Fiber]
    /\ currentData = <<>> /\ originalData = <<>>

\* ---- C9
SyncPcs == {"is_query", "is_begin", "is_clear", "is_insert", "is_commit"}

\* C9: a run of runInitialSync writes currentData only in the step in which
\* its commit succeeded, and then with the queried list; a run that fails at
\* the query, begin, a delete, an insert or the commit ends there and never
\* writes currentData
C9_SyncReplacesOnlyAfterCommit ==
    [][\A r \in Runners :
        (pc[r] \in SyncPcs /\ pc'[r] # pc[r] /\ (r = Fiber => subscribed'))
          => /\ IF pc[r] = "is_commit" /\ isOps'[r][Len(isOps'[r])].ok
                  THEN currentData' = data[r] /\ syncOut'[r] = "ok"
                  ELSE currentData' = currentData
             /\ (syncOut'[r] \notin {"none", "ok"} => pc'[r] = "done")
             /\ (syncOut'[r] = "ok" => pc[r] = "is_commit")]_vars

\* a run whose commit failed, with a queried list that differs from currentData
C9_Witness ==
    \E r \in Runners :
        /\ pc[r] = "done" /\ syncOut[r] = "CommitSyncError"
        /\ data[r] # <<>> /\ currentData # data[r]

\* ---- C10
Deletes(ops) == SelectSeq(ops, LAMBDA o : o.type = "delete")
\* p commits the second of two runs in a row: the fiber's run succeeded with
\* the same DataSource result, and p's run cleared exactly what it left
C10_SecondRun(p) ==
    /\ pc[p] = "is_commit" /\ syncOut'[p] = "ok"
    /\ syncOut[Fiber] = "ok" /\ svc[p] = svc[Fiber]
    /\ data[p] = data[Fiber]
    /\ currentData = data[Fiber]
    /\ Deletes(isOps[p]) = OkWrites("delete", data[Fiber])

\* C10 as stated: the second run leaves currentData as the first left it, and
\* the two runs issue the same number of delete plus insert calls
C10_Original ==
    [][\A p \in Procs :
        C10_SecondRun(p)
          => /\ currentData' = currentData
             /\ Len(Writes(isOps'[p])) = Len(Writes(isOps[Fiber]))]_vars

\* C10 amended: the second run leaves currentData as the first left it; every
\* run issues one delete per item of currentData at its clear phase and one
\* insert per queried item, so the second run issues twice the length of the
\* DataSource result and the first as many deletes as its own view held
C10_SyncRunsClearTheView ==
    [][/\ \A r \in Runners :
            (pc[r] = "is_clear" /\ pc'[r] = "is_insert")
              => isOps'[r] = <<OkOp("begin", NoItem)>> \o OkWrites("delete", currentData)
       /\ \A p \in Procs :
            C10_SecondRun(p)
              => /\ currentData' = currentData
                 /\ Len(Writes(isOps'[p])) = 2 * Len(data[p])
                 /\ Len(Writes(isOps[Fiber])) = Len(Deletes(isOps[Fiber])) + Len(data[p])]_vars

\* two runs in a row with the same non-empty DataSource result, the first from
\* an empty view: they issued different numbers of writes
C10_Witness ==
    \E p \in Procs :
        /\ pc[p] = "done" /\ syncOut[p] = "ok" /\ syncOut[Fiber] = "ok"
        /\ svc[p] = svc[Fiber] /\ data[p] = data[Fiber] /\ data[p] # <<>>
        /\ Deletes(isOps[p]) = OkWrites("delete", data[Fiber])
        /\ Deletes(isOps[Fiber]) = <<>>
        /\ currentData = data[p]
        /\ Len(Writes(isOps[p])) # Len(Writes(isOps[Fiber]))

\* ---- C11
DeleteMutationItems(t) ==
    [i \in DOMAIN t.mutations |-> t.mutations[i].modified]
RefetchTrue(p) == resp[p].kind = "refetch" /\ resp[p].refetch
LastOp(ops) == ops[Len(ops)]

\* C11 as stated: a settlement answered by {refetch: true} issues no sink
\* write between its begin and its commit, and its commit is followed by one
\* run of runInitialSync
C11_Original ==
    [][\A p \in Procs :
        (RefetchTrue(p) /\ pc[p] = "st_commit_refetch" /\ pc'[p] # pc[p] /\ LastOp(txOps'[p]).ok)
          => /\ Writes(txOps'[p]) = <<>>
             /\ pc'[p] = "is_query"]_vars

\* C11 amended: between its begin and its commit the settlement issues one
\* delete per mutation of a delete batch and nothing for an insert or update
\* batch; the run of runInitialSync starts in the step of the successful
\* commit, with no sink call of its own yet, it is entered from nowhere else,
\* and once started it only moves forward to its end (one query per submit)
C11_RefetchRunsOneSync ==
    [][\A p \in Procs :
        /\ (RefetchTrue(p) /\ pc[p] = "st_commit_refetch" /\ pc'[p] # pc[p] /\ LastOp(txOps'[p]).ok)
             => /\ txOps'[p] = <<OkOp("begin", NoItem)>>
                      \o OkWrites("delete", IF tx[p].type = "delete"
                                              THEN DeleteMutationItems(tx[p]) ELSE <<>>)
                      \o <<OkOp("commit", NoItem)>>
                /\ pc'[p] = "is_query"
                /\ isOps'[p] = <<>>
        /\ (pc'[p] = "is_query" /\ pc[p] # "is_query")
             => /\ pc[p] = "st_commit_refetch" /\ RefetchTrue(p)
                /\ LastOp(txOps'[p]) = OkOp("commit", NoItem)
        /\ (pc[p] = "is_query" /\ pc'[p] # pc[p])
             => pc'[p] \in {"is_begin", "done"}
        /\ (pc[p] \in SyncPcs \ {"is_query"} /\ pc'[p] # pc[p])
             => /\ pc'[p] \in (SyncPcs \ {"is_query"}) \cup {"done"}
                /\ txOps'[p] = txOps[p]]_vars

\* a delete batch answered by {refetch: true} whose settlement and re-run of
\* the initial sync both succeeded
C11_Witness ==
    \E p \in Procs :
        /\ RefetchTrue(p) /\ tx[p].type = "delete"
        /\ pc[p] = "done" /\ out[p] = "ok" /\ syncOut[p] = "ok"
        /\ Len(Writes(txOps[p])) = 1
        /\ isOps[p] # <<>>

\* ---- C12
\* C12: markReady of a subscription has been called exactly once when its
\* fiber has ended (by success, by a failure at any step, or by the cleanup's
\* interrupt) and not at all before; no run of runInitialSync inside
\* sendTransaction calls it
C12_ReadyExactlyOnce ==
    \A s \in DOMAIN ready :
        ready[s] = IF s < nsubs \/ (s = nsubs /\ pc[Fiber] = "done") THEN 1 ELSE 0

\* the fiber has ended, a settlement answered by {refetch: true} has re-run
\* the initial sync to its end, and markReady was called once
C12_Witness ==
    /\ nsubs = 1 /\ pc[Fiber] = "done" /\ syncOut[Fiber] # "none"
    /\ ready[1] = 1
    /\ \E p \in Procs : RefetchTrue(p) /\ pc[p] = "done" /\ syncOut[p] # "none"

\* ---- C13
AllOk(ops) == \A i \in DOMAIN ops : ops[i].ok
SettlementPcs == {"st_handler", "st_begin", "st_delete", "st_commit_void", "st_remove",
                  "st_insert", "st_commit", "st_commit_refetch"}
RollbackPcs == {"rb_begin", "rb_delete", "rb_restore", "rb_commit"}

\* C13: the promise of sendEffectTransaction is settled only when the runner
\* has no step left; while the settlement, the re-run of the initial sync or
\* the rollback has a step left the result is pending; a failed settlement's
\* result comes with the end of its rollback; the promise resolves only when
\* the handler did not fail and every sink call of the settlement succeeded,
\* its last one being the commit
C13_ResultAfterSettlementAndRollback ==
    \A p \in Procs :
        /\ out[p] \in {"ok", "rejected"} <=> pc[p] = "done"
        /\ pc[p] \in SettlementPcs \cup RollbackPcs \cup SyncPcs => out[p] = "pending"
        /\ (pc[p] = "done" /\ err[p] # "none")
             => (out[p] = "rejected" /\ rbOut[p] # "none" /\ rbOps[p] # <<>>)
        /\ out[p] = "ok"
             => /\ err[p] = "none" /\ rbOps[p] = <<>> /\ rbOut[p] = "none"
                /\ AllOk(txOps[p])
                /\ effectHandler[p] => (txOps[p] # <<>> /\ LastOp(txOps[p]).type = "commit")

\* a submit was rejected after its settlement failed at a sink call and its
\* rollback ran to its commit
C13_Witness ==
    \E p \in Procs :
        /\ pc[p] = "done" /\ out[p] = "rejected"
        /\ err[p] \notin {"none", "RunHandlerError"} /\ ~AllOk(txOps[p])
        /\ rbOut[p] = "restored" /\ LastOp(rbOps[p]).type = "commit"

\* ---- C14
Begins(ops) == SelectSeq(ops, LAMBDA o : o.type = "begin")

\* C14: rollbackTransaction starts in exactly those steps of a settlement in
\* which the handler or the sink call of the step fails; it starts with no
\* rollback call made before for this submit, moves only forward to its end,
\* and a failure in the re-run of the initial sync does not start it
C14_RollbackIffSettlementFailed ==
    [][\A p \in Procs :
        /\ (pc'[p] = "rb_begin" /\ pc[p] # "rb_begin")
             => /\ pc[p] \in SettlementPcs
                /\ err[p] = "none" /\ err'[p] # "none"
                /\ rbOps'[p] = <<>>
                /\ IF pc[p] = "st_handler"
                     THEN resp'[p] = Unset /\ txOps'[p] = <<>>
                     ELSE Len(txOps'[p]) > Len(txOps[p]) /\ ~LastOp(txOps'[p]).ok
        /\ (pc[p] = "st_handler" /\ pc'[p] # pc[p] /\ resp'[p] = Unset)
             => pc'[p] = "rb_begin"
        /\ (pc[p] \in SettlementPcs \ {"st_handler"} /\ pc'[p] # pc[p] /\ ~LastOp(txOps'[p]).ok)
             => pc'[p] = "rb_begin"
        /\ (pc[p] \in SettlementPcs /\ pc'[p] # pc[p] /\ pc'[p] # "rb_begin")
             => (err'[p] = "none" /\ AllOk(txOps'[p]) /\ resp'[p] # Unset)
        /\ (pc[p] \in RollbackPcs /\ pc'[p] # pc[p])
             => pc'[p] \in (RollbackPcs \ {"rb_begin"}) \cup {"done"}
        /\ (pc[p] \in SyncPcs /\ pc'[p] # pc[p])
             => (pc'[p] \notin RollbackPcs /\ rbOps'[p] = <<>>)]_vars

\* a settlement whose commit failed was followed by one rollback, which ended
C14_Witness ==
    \E p \in Procs :
        /\ pc[p] = "done" /\ err[p] = "CommitSyncError"
        /\ Len(txOps[p]) >= 2
        /\ Len(Begins(rbOps[p])) = 1 /\ Len(rbOps[p]) >= 2

\* ---- C15
RollbackErrors == {"BeginSyncError", "DeleteCollectionItemError",
                   "CreateCollectionError", "CommitSyncError"}

\* C15: the step of a rollback in which a sink call fails ends the rollback:
\* the failure is caught (no defect), the promise rejects with the
\* settlement's error exactly as after a rollback that succeeds, and no sink
\* call follows the failing one
C15_RollbackFailureIsSwallowed ==
    [][\A p \in Procs :
        /\ (pc[p] \in RollbackPcs /\ pc'[p] # pc[p])
             => /\ err'[p] = err[p]
                /\ txOps'[p] = txOps[p] /\ isOps'[p] = isOps[p]
                /\ AllOk(rbOps[p])
                /\ ~LastOp(rbOps'[p]).ok
                     => /\ pc'[p] = "done"
                        /\ rbOut'[p] \in RollbackErrors
                        /\ defect'[p] = "none"
                        /\ out'[p] = "rejected"
                /\ rbOut'[p] = "restored"
                     => (AllOk(rbOps'[p]) /\ defect'[p] = "none" /\ out'[p] = "rejected")
        /\ (pc[p] = "done" /\ rbOps'[p] # rbOps[p]) => rbOps'[p] = <<>>]_vars

\* a rollback ended at a failing write after its begin, and the submit was
\* rejected with the settlement's error
C15_Witness ==
    \E p \in Procs :
        /\ pc[p] = "done" /\ out[p] = "rejected" /\ defect[p] = "none"
        /\ err[p] # "none"
        /\ Len(rbOps[p]) >= 2 /\ ~LastOp(rbOps[p]).ok
        /\ LastOp(rbOps[p]).type \in {"delete", "insert"}
        /\ rbOut[p] \in RollbackErrors

\* ---- C16
\* C16: nothing orders the captures and the restores of overlapping submits:
\* every capture overwrites the one slot with the capturing runner's view,
\* whatever the slot held and whoever is in flight, and a rollback restores
\* currentData to whatever the slot holds when it reads it; C16_Witness is the
\* interleaving in which that is another settlement's capture
C16_SnapshotSlotIsShared ==
    [][\A p \in Procs :
        /\ (snap'[p] # snap[p] /\ isSome(snap'[p]))
             => /\ snap'[p] = <<currentData>>
                /\ originalData' = snap'[p]
        /\ (pc[p] = "rb_restore" /\ pc'[p] = "rb_commit")
             => /\ orig'[p] = originalData
                /\ currentData' = originalData[1]
                /\ snap'[p] = snap[p]]_vars

\* both settlements captured, the second one after the first; the first one
\* then failed, and its rollback restored the second one's capture, which is
\* not the list its own settlement had captured
C16_Witness ==
    \E p, q \in Procs :
        /\ p # q
        /\ isSome(snap[p]) /\ isSome(snap[q]) /\ snap[p] # snap[q]
        /\ pc[p] = "done" /\ rbOut[p] = "restored"
        /\ orig[p] = snap[q]
        /\ currentData = snap[q][1] /\ currentData # snap[p][1]

\* ---- C17
\* C17: the cleanup ends the fiber wherever it is, without a sink call of the
\* fiber; from then until the next sync() the fiber takes no step: it makes no
\* sink call, and whenever the fiber is not in its commit step a write of
\* currentData is the step of another runner or of the cleanup
C17_CleanupCancelsFiber ==
    [][/\ (subscribed /\ ~subscribed')
            => /\ pc'[Fiber] = "done"
               /\ isOps'[Fiber] = isOps[Fiber]
               /\ pc[Fiber] # "done" => syncOut'[Fiber] = "interrupted"
               /\ pc[Fiber] = "done" => syncOut'[Fiber] = syncOut[Fiber]
       /\ (~subscribed /\ ~subscribed')
            => /\ pc'[Fiber] = pc[Fiber] /\ pc[Fiber] \in {"idle", "done"}
               /\ isOps'[Fiber] = isOps[Fiber]
               /\ syncOut'[Fiber] = syncOut[Fiber]
               /\ data'[Fiber] = data[Fiber]
       /\ (currentData' # currentData /\ pc[Fiber] # "is_commit")
            => \/ subscribed /\ ~subscribed'
               \/ \E p \in Procs : pc'[p] # pc[p]]_vars

\* the fiber was interrupted between its inserts and its commit, and a
\* settlement went on after the cleanup had returned
C17_Witness ==
    /\ ~subscribed
    /\ syncOut[Fiber] = "interrupted"
    /\ isOps[Fiber] # <<>> /\ LastOp(isOps[Fiber]).type = "insert"
    /\ \E p \in Procs : pc[p] = "done" /\ txOps[p] # <<>> /\ svc[p] = svc[Fiber]

\* ---- C18
RECURSIVE DropKeys(_, _)
\* the items of s whose key is not in keys, in the order of s
DropKeys(s, keys) ==
    IF s = <<>> THEN <<>>
    ELSE IF s[1].id \in keys THEN DropKeys(Tail(s), keys)
    ELSE <<s[1]>> \o DropKeys(Tail(s), keys)

\* C18: no step of a settlement before its capture writes currentData; the
\* capture step of a settlement answered by a canonical list stores the list
\* it read in originalData and sets currentData to that list without the
\* entries that have a key of the batch, followed by the canonical items in
\* the handler's order; the settlement's later steps write neither, and with
\* every sink call successful it ends successfully
C18_CanonicalMergeAndSnapshot ==
    [][\A p \in Procs :
        /\ (pc[p] \in {"st_handler", "st_begin", "st_delete"} /\ pc'[p] # pc[p])
             => (currentData' = currentData /\ originalData' = originalData)
        /\ (pc[p] = "st_remove" /\ pc'[p] # pc[p])
             => /\ resp[p].kind = "list"
                /\ originalData' = <<currentData>>
                /\ snap'[p] = <<currentData>>
                /\ currentData' = DropKeys(currentData, BatchKeys(tx[p])) \o resp[p].items
        /\ (pc[p] \in {"st_insert", "st_commit"} /\ pc'[p] # pc[p])
             => /\ resp[p].kind = "list"
                /\ currentData' = currentData /\ originalData' = originalData
                /\ snap'[p] = snap[p]
        /\ (pc[p] = "st_commit" /\ pc'[p] = "done")
             => (AllOk(txOps'[p]) /\ out'[p] = "ok" /\ isSome(snap[p]))]_vars

\* a successful settlement of a batch of two updates answered by one canonical
\* item: both rows of the captured list are gone and the canonical item is last
C18_Witness ==
    \E p \in Procs :
        /\ pc[p] = "done" /\ out[p] = "ok" /\ resp[p].kind = "list"
        /\ Len(tx[p].mutations) = 2 /\ Len(resp[p].items) = 1
        /\ snap[p] = originalData /\ isSome(snap[p]) /\ Len(snap[p][1]) = 2
        /\ currentData = resp[p].items

\* ---- C19
\* C19: a run of runInitialSync that meets no failure goes through query,
\* begin, clear, insert, commit in this order: the query comes before any
\* sink call, the clear phase issues one delete per item of currentData as it
\* is then, the insert phase one insert per queried item, and the step of the
\* commit is the one that sets currentData to the queried list, so the sink
\* calls of the run are begin, its deletes, its inserts, commit
C19_SyncStepOrder ==
    [][\A r \in Runners :
        /\ (pc[r] = "is_query" /\ pc'[r] \notin {"is_query", "done"})
             => (pc'[r] = "is_begin" /\ isOps'[r] = <<>> /\ data'[r] \in QueryResults)
        /\ (pc[r] = "is_begin" /\ pc'[r] \notin {"is_begin", "done"})
             => (pc'[r] = "is_clear" /\ isOps'[r] = <<OkOp("begin", NoItem)>>)
        /\ (pc[r] = "is_clear" /\ pc'[r] \notin {"is_clear", "done"})
             => /\ pc'[r] = "is_insert"
                /\ isOps'[r] = isOps[r] \o OkWrites("delete", currentData)
        /\ (pc[r] = "is_insert" /\ pc'[r] \notin {"is_insert", "done"})
             => /\ pc'[r] = "is_commit"
                /\ isOps'[r] = isOps[r] \o OkWrites("insert", data[r])
        /\ (pc[r] \in SyncPcs \ {"is_commit"} /\ pc'[r] \in SyncPcs /\ pc'[r] # pc[r])
             => currentData' = currentData
        /\ (pc[r] = "is_commit" /\ syncOut'[r] = "ok")
             => /\ currentData' = data[r]
                /\ isOps'[r] = <<OkOp("begin", NoItem)>> \o Deletes(isOps[r])
                                 \o OkWrites("insert", data[r]) \o <<OkOp("commit", NoItem)>>]_vars

\* a successful run that cleared a view of two items and inserted none
C19_Witness ==
    \E r \in Runners :
        /\ pc[r] = "done" /\ syncOut[r] = "ok" /\ data[r] = <<>>
        /\ Len(isOps[r]) = 4 /\ Len(Deletes(isOps[r])) = 2
        /\ currentData = <<>>

\* ---- C20
Commits(ops) == SelectSeq(ops, LAMBDA o : o.type = "commit")
SyncErrorOf(type) ==
    CASE type = "begin" -> "BeginSyncError"
      [] type = "delete" -> "DeleteCollectionItemError"
      [] type = "insert" -> "CreateCollectionError"
      [] OTHER -> "CommitSyncError"

\* C20: in every run of runInitialSync only the last sink call made so far can
\* be a failed one, and a failed call has ended the run with its error; a run
\* whose query failed made no sink call, one whose begin failed made no other
\* call, one that failed at a delete made no insert and no commit, one that
\* failed at an insert made no commit
C20_SyncFailFast ==
    \A r \in Runners :
        /\ \A i \in 1..(Len(isOps[r]) - 1) : isOps[r][i].ok
        /\ (isOps[r] # <<>> /\ ~LastOp(isOps[r]).ok)
             => (pc[r] = "done" /\ syncOut[r] = SyncErrorOf(LastOp(isOps[r]).type))
        /\ syncOut[r] = "SyncDataResponseError" => isOps[r] = <<>>
        /\ syncOut[r] = "BeginSyncError" => isOps[r] = <<[type |-> "begin", value |-> NoItem, ok |-> FALSE]>>
        /\ syncOut[r] = "DeleteCollectionItemError"
             => /\ Inserts(isOps[r]) = <<>> /\ Commits(isOps[r]) = <<>>
                /\ LastOp(isOps[r]).type = "delete" /\ ~LastOp(isOps[r]).ok
        /\ syncOut[r] = "CreateCollectionError"
             => /\ Commits(isOps[r]) = <<>>
                /\ LastOp(isOps[r]).type = "insert" /\ ~LastOp(isOps[r]).ok

\* a run ended at the failing first delete of a view of two items
C20_Witness ==
    \E r \in Runners :
        /\ pc[r] = "done" /\ syncOut[r] = "DeleteCollectionItemError"
        /\ Len(isOps[r]) = 2 /\ Len(currentData) = 2
        /\ isOps[r][2].value = currentData[1]

\* ---- C21
\* C21: among the sink calls of one settlement no delete follows an insert,
\* every delete is the delete of the modified item of a mutation of the batch,
\* and no item is deleted twice
C21_DeletesBeforeInserts ==
    \A p \in Procs :
        /\ \A i, j \in DOMAIN txOps[p] :
             (i < j /\ txOps[p][i].type = "insert") => txOps[p][j].type # "delete"
        /\ \A i \in DOMAIN txOps[p] :
             txOps[p][i].type = "delete"
               => \E k \in DOMAIN tx[p].mutations : tx[p].mutations[k].modified = txOps[p][i].value
        /\ \A i, j \in DOMAIN txOps[p] :
             (i # j /\ txOps[p][i].type = "delete" /\ txOps[p][j].type = "delete")
               => txOps[p][i].value # txOps[p][j].value

\* a successful settlement of a delete batch answered by a canonical item:
\* its delete came before the insert
C21_Witness ==
    \E p \in Procs :
        /\ pc[p] = "done" /\ out[p] = "ok" /\ tx[p].type = "delete"
        /\ Len(Deletes(txOps[p])) = 1 /\ Len(Inserts(txOps[p])) = 1
        /\ txOps[p][2].type = "delete" /\ txOps[p][3].type = "insert"

\* ---- C22
RefetchFalse(p) == resp[p].kind = "refetch" /\ ~resp[p].refetch

\* C22: the step in which a settlement answered by {refetch: false} commits
\* ends the settlement successfully without a DataSource query and leaves
\* every entry of currentData as it was
C22_Original ==
    [][\A p \in Procs :
        (RefetchFalse(p) /\ pc[p] = "st_commit_refetch" /\ pc'[p] # pc[p] /\ LastOp(txOps'[p]).ok)
          => /\ pc'[p] = "done" /\ out'[p] = "ok"
             /\ isOps'[p] = <<>>
             /\ currentData' = currentData]_vars

\* ---- C23
\* C23: the step in which the handler fails makes no sink call and writes
\* neither currentData nor originalData; the settlement has then made no sink
\* call at all and captured nothing, and the next sink call of the runner is
\* the begin of rollbackTransaction
C23_HandlerFailureBeforeBegin ==
    [][\A p \in Procs :
        /\ (pc[p] = "st_handler" /\ pc'[p] = "rb_begin")
             => /\ err'[p] = "RunHandlerError"
                /\ txOps'[p] = <<>> /\ rbOps'[p] = <<>> /\ isOps'[p] = <<>>
                /\ snap'[p] = <<>>
                /\ currentData' = currentData /\ originalData' = originalData
        /\ (err[p] = "RunHandlerError" /\ pc[p] = "rb_begin" /\ pc'[p] # pc[p])
             => /\ txOps'[p] = <<>> /\ isOps'[p] = <<>>
                /\ Len(rbOps'[p]) = 1 /\ rbOps'[p][1].type = "begin"
        /\ (err[p] = "RunHandlerError" /\ pc[p] \in RollbackPcs /\ pc'[p] # pc[p])
             => (txOps'[p] = <<>> /\ snap'[p] = <<>>)]_vars

\* a handler failure followed by a whole rollback: the settlement made no sink
\* call and the rollback's calls start with its begin
C23_Witness ==
    \E p \in Procs :
        /\ pc[p] = "done" /\ err[p] = "RunHandlerError"
        /\ txOps[p] = <<>> /\ snap[p] = <<>>
        /\ Len(rbOps[p]) >= 3 /\ rbOps[p][1] = OkOp("begin", NoItem)

\* ---- C24
\* C24: with submits that do not overlap, the snapshot a rollback has read is
\* the one captured by the settlement of its own transaction
C24_Original ==
    \A p \in Procs : isSome(orig[p]) => orig[p] = snap[p]

\* ---- C25
\* the sink calls of a runner, in the order it issued them
Calls(r) == txOps[r] \o isOps[r] \o rbOps[r]
RECURSIVE Alternates(_, _)
\* issued on the sink s, every begin of ops finds no open transaction and
\* every write and commit of ops finds one
Alternates(s, ops) ==
    \/ ops = <<>>
    \/ /\ (Head(ops).type = "begin") = ~s.open
       /\ Alternates(sinkCall(s, Head(ops)), Tail(ops))
\* one run's calls: a begin first and only there, a commit last or never, and
\* no call after a failed one
Bracketed(ops) ==
    \/ ops = <<>>
    \/ /\ ops[1].type = "begin"
       /\ \A i \in 2..Len(ops) : ops[i].type # "begin"
       /\ \A i \in 1..(Len(ops) - 1) : ops[i].type # "commit" /\ ops[i].ok

\* C25: on the sink of a session begin and commit strictly alternate: no begin
\* is issued while a transaction is open, no write or commit while none is
C25_Original ==
    [][\A r \in Runners :
         Len(Calls(r)') > Len(Calls(r)) =>
            Alternates(sink[svc[r]], SubSeq(Calls(r)', Len(Calls(r)) + 1, Len(Calls(r)')))]_vars

\* C25 (as the code has it): the calls of each single run are a begin, then
\* writes, then at most one commit, and stop at the first failing call; a
\* rollback runs only after a settlement that committed nothing, so its begin
\* follows a begin of that settlement that no commit of the run closed
C25_RunsAreBracketed ==
    \A r \in Runners :
        /\ Bracketed(txOps[r]) /\ Bracketed(isOps[r]) /\ Bracketed(rbOps[r])
        /\ rbOps[r] # <<>> => Commits(txOps[r]) \in {<<>>, commit(FALSE)}

C25_Witness ==
    \E p \in Procs :
        /\ Len(txOps[p]) >= 2 /\ txOps[p][1] = OkOp("begin", NoItem)
        /\ Commits(txOps[p]) = <<>>
        /\ rbOps[p] # <<>> /\ rbOps[p][1] = OkOp("begin", NoItem)
        /\ sink[svc[p]].open

\* ---- C26
KeysOf(items) == { getKey(items[i]) : i \in DOMAIN items }

\* C26: with nothing in flight and no failed call, the keys of currentData are
\* the keys committed to the sink of the session
C26_Original ==
    (subscribed /\ Quiet /\ pc[Fiber] = "done" /\ nfails = 0 /\ ~sink[nsubs].open)
        => KeysOf(currentData) = sink[nsubs].keys

\* ---- C27
NoDuplicateKeys(items) ==
    \A i, j \in DOMAIN items : getKey(items[i]) = getKey(items[j]) => i = j
\* the step merges a canonical list that holds a key of no mutation of its batch
ForeignCanonical ==
    \E p \in Procs :
        /\ pc[p] = "st_remove" /\ pc'[p] # pc[p]
        /\ ~(KeysOf(resp[p].items) \subseteq BatchKeys(tx[p]))
UniqueKeys ==
    /\ NoDuplicateKeys(currentData)
    /\ isSome(originalData) => NoDuplicateKeys(originalData[1])

\* C27: with DataSource results and canonical lists of pairwise distinct keys,
\* and canonical lists that hold only keys of their batch, no step puts two
\* items of one key into currentData (nor into the snapshot it may be
\* restored from)
C27_KeysStayUnique ==
    [][(UniqueKeys /\ ~ForeignCanonical) => UniqueKeys']_vars

C27_Witness ==
    \E p \in Procs :
        /\ pc[p] = "done" /\ out[p] = "ok"
        /\ resp[p].kind = "list" /\ resp[p].items # <<>>
        /\ KeysOf(resp[p].items) \subseteq BatchKeys(tx[p])
        /\ isSome(snap[p]) /\ KeysOf(resp[p].items) \subseteq KeysOf(snap[p][1])
        /\ currentData = DropKeys(snap[p][1], BatchKeys(tx[p])) \o resp[p].items
        /\ Len(currentData) >= 2
        /\ UniqueKeys

\* ---- C28
\* C28: from the return of the cleanup to the next sync() call, currentData is
\* empty and originalData is none, also when a submit made while subscribed
\* was in flight at the cleanup (no submit is made after the cleanup)
C28_Original ==
    (nsubs >= 1 /\ ~subscribed /\ \A p \in Procs : atSubmit[p] \/ pc[p] = "idle")
        => (currentData = <<>> /\ isNone(originalData))

\* ---- C29
\* the step ends the runInitialSync run of p in a failure
RerunFails(p) == pc[p] \in SyncPcs /\ syncOut'[p] \notin {"none", "ok"}

\* C29: when the runInitialSync run started by { refetch: true } fails, at
\* whatever step, the failure is only logged: the promise resolves, no call of
\* rollbackTransaction is made, and currentData and originalData stay as the
\* settlement and the steps of others left them
C29_RerunFailureIsLogged ==
    [][\A p \in Procs :
         /\ RerunFails(p) =>
               /\ RefetchTrue(p)
               /\ pc'[p] = "done" /\ out'[p] = "ok"
               /\ err'[p] = "none" /\ defect'[p] = "none"
               /\ rbOps'[p] = <<>> /\ rbOut'[p] = "none"
               /\ currentData' = currentData /\ originalData' = originalData
         /\ (pc[p] \in SyncPcs /\ pc'[p] # pc[p]) => pc'[p] \in SyncPcs \cup {"done"}]_vars

C29_Witness ==
    \E p \in Procs :
        /\ RefetchTrue(p) /\ pc[p] = "done"
        /\ syncOut[p] \in {"CreateCollectionError", "CommitSyncError"}
        /\ out[p] = "ok" /\ rbOps[p] = <<>>
        /\ isSome(snap[p]) /\ snap[p][1] # currentData
        /\ currentData = DropKeys(snap[p][1], BatchKeys(tx[p]))

\* ---- C30
\* some delete of later follows, on the sink, a successful insert of earlier
\* with the same key
DeleteAfterInsert(earlier, later) ==
    \E i \in DOMAIN earlier, j \in DOMAIN later :
        /\ earlier[i].type = "insert" /\ earlier[i].ok
        /\ later[j].type = "delete"
        /\ getKey(later[j].value) = getKey(earlier[i].value)
\* the calls of ops issued before its i-th call
Before(ops, i) == SubSeq(ops, 1, i - 1)

\* C30: over the settlement of a transaction and its rollback, no delete of a
\* modified item reaches the sink after an insert of an item with its key
C30_Original ==
    \A p \in Procs :
        /\ ~DeleteAfterInsert(txOps[p], rbOps[p])
        /\ \A j \in DOMAIN txOps[p] : ~DeleteAfterInsert(Before(txOps[p], j), <<txOps[p][j]>>)

\* C30 (as the code has it): within the settlement no delete follows an
\* insert; the rollback that follows deletes the modified item of every
\* mutation of the batch right after its begin, whatever the settlement had
\* inserted before it failed
C30_RollbackDeletesEveryModifiedItem ==
    \A p \in Procs :
        /\ \A j \in DOMAIN txOps[p] : ~DeleteAfterInsert(Before(txOps[p], j), <<txOps[p][j]>>)
        /\ pc[p] \in {"rb_restore", "rb_commit"} =>
              /\ Len(rbOps[p]) >= 1 + Len(tx[p].mutations)
              /\ SubSeq(rbOps[p], 1, 1 + Len(tx[p].mutations))
                    = begin(TRUE) \o OkWrites("delete", ModifiedItems(tx[p]))

C30_Witness ==
    \E p \in Procs :
        /\ pc[p] \in {"rb_restore", "rb_commit"}
        /\ err[p] = "CommitSyncError"
        /\ DeleteAfterInsert(txOps[p], rbOps[p])

====
